---------------------------- MODULE Spec2Model ----------------------------
(* A model of app.py: the Streamlit "Generate Presentation" handler and    *)
(* the three functions it drives, process_pdfs, call_gemini_api_for_slides *)
(* and create_enhanced_ppt.                                                *)
(*                                                                         *)
(* A text is a sequence of lexical units.  The units the code looks inside *)
(* (the backtick, white space, the letters of the "json" tag, the letters  *)
(* of a slide title) are single characters; every other unit stands for a  *)
(* multi-character stretch that no string operation of the code cuts: it   *)
(* holds no backtick, starts and ends with no white space and is not the   *)
(* word json.                                                              *)
EXTENDS Integers, Sequences, FiniteSets, TLC

VARIABLES
    uploaded_files,    \* st.file_uploader("Upload PDF(s)"): the uploads, in order
    uploaded_template, \* st.file_uploader("Upload PPT template"): <<>> or <<template>>
    topic,             \* st.text_input("Presentation topic:")
    num_slides,        \* st.number_input("Number of slides:", 1, 50, 10)
    llm,               \* what model.generate_content will answer: an error or a text
    pc,                \* the handler's position
    file_idx,          \* process_pdfs: index of the next file of the loop
    combined_text,     \* process_pdfs: combined_text
    total_tokens,      \* process_pdfs: total_tokens
    processed_files,   \* process_pdfs: processed_files
    prompt,            \* call_gemini_api_for_slides: the prompt sent, <<>> before
    slides_data,       \* <<>> or <<the value json.loads returned>>
    pptx_stream,       \* <<>> or <<the deck create_enhanced_ppt returned>>
    messages,          \* the st.info/warning/success/error lines, in order
    exc,               \* <<>> or <<the exception that left the handler>>
    llm_calls,         \* how many times generate_content was called
    ppt_calls,         \* how many times create_enhanced_ppt was called
    download           \* whether st.download_button was offered

vars == <<uploaded_files, uploaded_template, topic, num_slides, llm, pc,
          file_idx, combined_text, total_tokens, processed_files, prompt,
          slides_data, pptx_stream, messages, exc, llm_calls, ppt_calls,
          download>>

inputs == <<uploaded_files, uploaded_template, topic, num_slides, llm>>

budget == <<file_idx, combined_text, total_tokens, processed_files>>

-----------------------------------------------------------------------------
(* Bounds of the model.                                                    *)

MaxFiles == 3

MaxOutline == 2

MaxTemplateSlides == 2

-----------------------------------------------------------------------------
(* Python's str operations, on sequences of units.                         *)

Whitespace == {" ", "\n", "\t", "\r"}

\* the backtick character (a string of the module cannot hold one)
BACKTICK == "<backtick>"

Fence == <<BACKTICK, BACKTICK, BACKTICK>>

JsonTag == <<"j", "s", "o", "n", "\n">>

StartsWith(s, p) == Len(s) >= Len(p) /\ SubSeq(s, 1, Len(p)) = p

EndsWith(s, p) == Len(s) >= Len(p) /\ SubSeq(s, Len(s) - Len(p) + 1, Len(s)) = p

\* whether p occurs in s as a contiguous stretch (the in operator of str)
Contains(s, p) ==
    \E i \in 1..(Len(s) - Len(p) + 1) : SubSeq(s, i, i + Len(p) - 1) = p

\* str.strip(): the text without the white space at its two ends
Strip(s) ==
    LET inked == {i \in 1..Len(s) : s[i] \notin Whitespace}
    IN  IF inked = {} THEN <<>>
        ELSE SubSeq(s, CHOOSE i \in inked : \A j \in inked : i <= j,
                       CHOOSE i \in inked : \A j \in inked : i >= j)

\* str.find(sep, from): the first place at or after from where sep occurs,
\* 0 when there is none
Find(s, sep, from) ==
    LET at == {i \in from..(Len(s) - Len(sep) + 1) : SubSeq(s, i, i + Len(sep) - 1) = sep}
    IN  IF at = {} THEN 0 ELSE CHOOSE i \in at : \A j \in at : i <= j

\* str.split(sep): the segments between the non-overlapping occurrences of
\* sep, found left to right
RECURSIVE SplitFrom(_, _, _)
SplitFrom(s, sep, from) ==
    LET i == Find(s, sep, from)
    IN  IF i = 0 THEN <<SubSeq(s, from, Len(s))>>
        ELSE <<SubSeq(s, from, i - 1)>> \o SplitFrom(s, sep, i + Len(sep))

Split(s, sep) == SplitFrom(s, sep, 1)

RECURSIVE Concat(_)
Concat(ss) == IF ss = <<>> THEN <<>> ELSE Head(ss) \o Concat(Tail(ss))

-----------------------------------------------------------------------------
(* Constants of app.py.                                                    *)

MAX_TOKENS == 1900000

LayoutNames == <<"Title Slide", "Content", "Two Content", "Section Header", "Comparison">>

\* SLIDE_LAYOUTS[name]["id"]
LayoutId(name) ==
    CASE name = "Title Slide" -> 0
      [] name = "Content" -> 1
      [] name = "Two Content" -> 3
      [] name = "Section Header" -> 2
      [] name = "Comparison" -> 4

SLIDE_LAYOUTS == {LayoutNames[i] : i \in 1..Len(LayoutNames)}


-----------------------------------------------------------------------------
(* The uploads.  A file is its name, the step of the loop body that raises *)
(* on it (none, file.read, extract_text_from_pdf or count_tokens) and the  *)
(* text pdfplumber finds on each of its pages (<<>>: a page with no text). *)

FileNames == {"a.pdf", "b.pdf"}

FailSteps == {"read", "extract", "count"}

\* One word of page text stands for a run of text of that many tokens.
WordTokens(u) ==
    CASE u = "\n" -> 1
      [] u = "w_half" -> (MAX_TOKENS \div 2) - 1
      [] u = "w_full" -> MAX_TOKENS - 1
      [] u = "w_over" -> MAX_TOKENS
      [] OTHER -> 1

PageChoices ==
    { << <<>> >>, << <<"w_half">> >>, << <<"w_full">> >>, << <<"w_over">> >> }

Files ==
    [name : FileNames, fails : {"none"}, pages : PageChoices]
    \cup [name : FileNames, fails : FailSteps, pages : {<< <<>> >>}]

RECURSIVE SeqsUpTo(_, _)
SeqsUpTo(S, n) ==
    IF n = 0 THEN {<<>>}
    ELSE LET shorter == SeqsUpTo(S, n - 1)
         IN  shorter \cup {Append(q, x) : q \in {r \in shorter : Len(r) = n - 1}, x \in S}

\* extract_text_from_pdf: the text of every page that has some, each
\* followed by a line break
RECURSIVE ExtractPages(_)
ExtractPages(pages) ==
    IF pages = <<>> THEN <<>>
    ELSE (IF Head(pages) # <<>> THEN Head(pages) \o <<"\n">> ELSE <<>>)
         \o ExtractPages(Tail(pages))

extract_text_from_pdf(file) == ExtractPages(file.pages)

\* count_tokens: len(encoding.encode(text))
RECURSIVE count_tokens(_)
count_tokens(text) ==
    IF text = <<>> THEN 0 ELSE WordTokens(Head(text)) + count_tokens(Tail(text))

\* whether file.read, extract_text_from_pdf or count_tokens raises on the file
Raises(file) == file.fails # "none"

\* a test that forgets the running total
WouldExceedIgnoringTotal(total, tokens) == tokens > MAX_TOKENS

\* a test that is off by one at the ceiling
WouldExceedAtCeiling(total, tokens) == total + tokens >= MAX_TOKENS

\* the test of the budget: if total_tokens + tokens > MAX_TOKENS
WouldExceed(total, tokens) == total + tokens > MAX_TOKENS

InfoLine(file) == <<"info", "Processing ", file.name, "...">>

SourceBlock(file, text) == <<"\n\nSource: ", file.name, "\n">> \o text

\* the loop body without its try: the exception leaves process_pdfs
OnFileErrorPropagating(file) ==
    /\ messages' = messages \o <<InfoLine(file)>>
    /\ exc' = <<[type |-> "Exception", step |-> file.fails]>>
    /\ pc' = "raised"
    /\ UNCHANGED <<combined_text, total_tokens, processed_files>>

\* except Exception as e: st.error(...), and the loop goes on
OnFileError(file) ==
    /\ messages' = messages \o
           <<InfoLine(file), <<"error", "Error processing ", file.name, ": ", file.fails>>>>
    /\ UNCHANGED <<combined_text, total_tokens, processed_files, exc, pc>>

\* a skip that ends the loop (break for continue)
SkipFileBreaking(file) ==
    /\ messages' = messages \o
           <<InfoLine(file), <<"warning", "Skipping ", file.name, " - would exceed token limit">>>>
    /\ pc' = "processed"
    /\ UNCHANGED <<combined_text, total_tokens, processed_files, exc>>

\* if total_tokens + tokens > MAX_TOKENS: st.warning(...); continue
SkipFile(file) ==
    /\ messages' = messages \o
           <<InfoLine(file), <<"warning", "Skipping ", file.name, " - would exceed token limit">>>>
    /\ UNCHANGED <<combined_text, total_tokens, processed_files, exc, pc>>

\* the three writes of an accepted file, and st.success (the code prints the
\* count with thousands separators; no step reads the line back)
AcceptFile(file, text, tokens) ==
    /\ combined_text' = combined_text \o SourceBlock(file, text)
    /\ total_tokens' = total_tokens + tokens
    /\ processed_files' = Append(processed_files, file.name)
    /\ messages' = messages \o
           <<InfoLine(file), <<"success", "Processed ", file.name, ": ", ToString(tokens), " tokens">>>>
    /\ UNCHANGED <<exc, pc>>

\* one iteration of the loop of process_pdfs
ProcessFile ==
    /\ pc = "process_pdfs"
    /\ file_idx <= Len(uploaded_files)
    /\ LET file == uploaded_files[file_idx]
           text == extract_text_from_pdf(file)
           tokens == count_tokens(text)
       IN  IF Raises(file) THEN OnFileError(file)
           ELSE IF WouldExceed(total_tokens, tokens) THEN SkipFile(file)
           ELSE AcceptFile(file, text, tokens)
    /\ file_idx' = file_idx + 1
    /\ UNCHANGED <<inputs, prompt, slides_data, pptx_stream, llm_calls, ppt_calls, download>>

\* the loop is over: return combined_text, total_tokens, processed_files
ProcessPdfsReturn ==
    /\ pc = "process_pdfs"
    /\ file_idx > Len(uploaded_files)
    /\ pc' = "processed"
    /\ UNCHANGED <<inputs, budget, prompt, slides_data, pptx_stream, messages, exc,
                   llm_calls, ppt_calls, download>>

\* process_pdfs is entered: combined_text = "", total_tokens = 0, processed_files = []
BudgetStart ==
    /\ file_idx = 1
    /\ combined_text = <<>>
    /\ total_tokens = 0
    /\ processed_files = <<>>

Untouched ==
    /\ prompt = <<>>
    /\ slides_data = <<>>
    /\ pptx_stream = <<>>
    /\ messages = <<>>
    /\ exc = <<>>
    /\ llm_calls = 0
    /\ ppt_calls = 0
    /\ download = FALSE

DefaultTopic == <<"P">>

\* process_pdfs alone, called on any upload sequence
InitBudget ==
    /\ uploaded_files \in SeqsUpTo(Files, MaxFiles)
    /\ uploaded_template = <<>>
    /\ topic = DefaultTopic
    /\ num_slides = 1
    /\ llm = [error |-> TRUE, text |-> <<>>]
    /\ pc = "process_pdfs"
    /\ BudgetStart
    /\ Untouched

NextBudget == ProcessFile \/ ProcessPdfsReturn

SpecBudget == InitBudget /\ [][NextBudget]_vars


-----------------------------------------------------------------------------
(* JSON.  A dict is a function on its keys; a slide record may lack any of *)
(* title, layout_type, content and transition.  A title is a string of     *)
(* characters, every other string is one unit.                             *)

EmptyDict == [k \in {} |-> k]

Title == <<"t">>

FenceTitle == <<"a">> \o Fence \o <<"b">>

\* the content object the prompt asks for, per layout_type
FullContent(layout) ==
    CASE layout = "Title Slide" -> [subtitle |-> "sub"]
      [] layout = "Content" -> [bullets |-> <<"b1", "b2">>]
      [] layout = "Two Content" -> [left |-> <<"l1">>, right |-> <<"r1">>]
      [] layout = "Section Header" -> [subtitle |-> "sub"]
      [] layout = "Comparison" -> [comparison_points |-> <<"c1">>]

WellFormed(layout) ==
    [title |-> Title, layout_type |-> layout, content |-> FullContent(layout),
     transition |-> "None"]

WellFormedSlides == {WellFormed(l) : l \in SLIDE_LAYOUTS}

\* a content object without the entry its layout reads
NoEntrySlides ==
    {[title |-> Title, layout_type |-> l, content |-> EmptyDict, transition |-> "None"] :
        l \in {"Content", "Two Content", "Title Slide"}}

NoContentSlide == [title |-> Title, layout_type |-> "Content", transition |-> "None"]

NoLayoutSlide ==
    [title |-> Title, content |-> FullContent("Content"), transition |-> "None"]

UnknownLayoutSlide ==
    [title |-> Title, layout_type |-> "Picture", content |-> FullContent("Content"),
     transition |-> "None"]

NoTransitionSlide ==
    [title |-> Title, layout_type |-> "Content", content |-> FullContent("Content")]

NoTitleSlide ==
    [layout_type |-> "Content", content |-> FullContent("Content"), transition |-> "None"]

FadeSlide == [WellFormed("Content") EXCEPT !.transition = "Fade"]

FenceTitleSlide == [WellFormed("Content") EXCEPT !.title = FenceTitle]

SlideRecords ==
    WellFormedSlides \cup NoEntrySlides
    \cup {NoContentSlide, NoLayoutSlide, UnknownLayoutSlide, NoTransitionSlide,
          NoTitleSlide, FadeSlide, FenceTitleSlide}

Outlines == {[slides |-> q] : q \in SeqsUpTo(SlideRecords, MaxOutline)}

JsonValues == Outlines \cup {EmptyDict}

RECURSIVE Join(_, _)
Join(parts, sep) ==
    IF parts = <<>> THEN <<>>
    ELSE IF Len(parts) = 1 THEN parts[1]
    ELSE parts[1] \o sep \o Join(Tail(parts), sep)

DumpList(items) ==
    <<"[">> \o Join([i \in 1..Len(items) |-> <<"\"", items[i], "\"">>], <<", ">>) \o <<"]">>

ContentKeys == <<"subtitle", "bullets", "left", "right", "comparison_points">>

DumpEntry(c, k) ==
    IF k \notin DOMAIN c THEN <<>>
    ELSE <<<<"\"", k, "\": ">> \o
           (IF k = "subtitle" THEN <<"\"", c[k], "\"">> ELSE DumpList(c[k]))>>

DumpContent(c) ==
    <<"{">> \o Join(Concat([i \in 1..Len(ContentKeys) |-> DumpEntry(c, ContentKeys[i])]), <<", ">>)
    \o <<"}">>

DumpSlide(r) ==
    LET fields ==
            (IF "title" \in DOMAIN r
             THEN <<<<"\"title\": \"">> \o r.title \o <<"\"">>>> ELSE <<>>)
            \o (IF "layout_type" \in DOMAIN r
                THEN <<<<"\"layout_type\": \"", r.layout_type, "\"">>>> ELSE <<>>)
            \o (IF "content" \in DOMAIN r
                THEN <<<<"\"content\": ">> \o DumpContent(r.content)>> ELSE <<>>)
            \o (IF "transition" \in DOMAIN r
                THEN <<<<"\"transition\": \"", r.transition, "\"">>>> ELSE <<>>)
    IN  <<"{">> \o Join(fields, <<", ">>) \o <<"}">>

\* the JSON text of a value (json.dumps)
Dumps(v) ==
    IF "slides" \notin DOMAIN v THEN <<"{}">>
    ELSE <<"{\"slides\": [">>
         \o Join([i \in 1..Len(v.slides) |-> DumpSlide(v.slides[i])], <<", ">>)
         \o <<"]}">>

JsonTable == {<<Dumps(v), v>> : v \in JsonValues}

\* json.loads: <<the value>> of a well-formed document, white space around
\* it allowed; <<>> when it raises JSONDecodeError
JsonLoads(s) ==
    LET doc == Strip(s)
        hits == {p \in JsonTable : p[1] = doc}
    IN  IF hits = {} THEN <<>> ELSE <<(CHOOSE p \in hits : TRUE)[2]>>

-----------------------------------------------------------------------------
(* call_gemini_api_for_slides.                                             *)

\* the f-string of the prompt; source_text is a parameter of the function
BuildPrompt(source_text, topic_, n) ==
    <<"\nCreate a ", ToString(n), "-slide presentation about \"">> \o topic_
    \o <<"\".\n\nFor each slide, return a JSON object with:\n- title (string, short)\n- layout_type (one of ",
         "['Title Slide', 'Content', 'Two Content', 'Section Header', 'Comparison']",
         ")\n- content (an object depending on layout_type): ...\n- transition: one of ",
         "['None', 'Fade', 'Push', 'Wipe', 'Split']",
         "\n\nMake sure the output is valid JSON. For example:\n{\"slides\": [ ... ]}\n">>

\* content = response.text.strip(), and the fence is taken off
CleanResponse(text) ==
    LET content == Strip(text)
    IN  IF StartsWith(content, Fence) /\ EndsWith(content, Fence)
        THEN LET inner == Split(content, Fence)[2]
                 untagged == IF StartsWith(inner, JsonTag)
                             THEN SubSeq(inner, Len(JsonTag) + 1, Len(inner))
                             ELSE inner
             IN  Strip(untagged)
        ELSE content

ParseResponse(text) == JsonLoads(CleanResponse(text))

\* str(e) of the exception the try block caught
ErrorText(e) ==
    IF e.type = "JSONDecodeError"
    THEN <<"Expecting value", ": line 1 column 1 (char ", ToString(e.pos), ")">>
    ELSE <<"429 quota exceeded">>

\* an except clause that reports and returns an empty outline
OnApiErrorSwallowed(e) ==
    /\ messages' = Append(messages, <<"error", "API Error: ">> \o ErrorText(e))
    /\ slides_data' = <<[slides |-> <<>>]>>
    /\ pc' = "create_ppt"
    /\ UNCHANGED exc

\* except Exception as e: st.error(f"API Error: {str(e)}"); raise
OnApiError(e) ==
    /\ messages' = Append(messages, <<"error", "API Error: ">> \o ErrorText(e))
    /\ exc' = <<e>>
    /\ pc' = "raised"
    /\ UNCHANGED slides_data

\* the whole of call_gemini_api_for_slides(combined_text, topic, num_slides, ...)
CallGemini ==
    /\ pc = "call_api"
    /\ prompt' = BuildPrompt(combined_text, topic, num_slides)
    /\ llm_calls' = llm_calls + 1
    /\ IF llm.error
       THEN OnApiError([type |-> "APIError", pos |-> 0, doc |-> <<>>])
       ELSE LET content == CleanResponse(llm.text)
                parsed == JsonLoads(content)
            IN  IF parsed = <<>>
                THEN \E pos \in 0..Len(content) :
                        OnApiError([type |-> "JSONDecodeError", pos |-> pos, doc |-> content])
                ELSE /\ slides_data' = parsed
                     /\ pc' = "create_ppt"
                     /\ UNCHANGED <<messages, exc>>
    /\ UNCHANGED <<inputs, budget, pptx_stream, ppt_calls, download>>

\* the answers of the LLM: a document bare, fenced with and without the
\* json tag, with white space around; and texts that are no JSON
Wrappings(d) ==
    { Fence \o JsonTag \o d \o <<"\n">> \o Fence,
      Fence \o <<"\n">> \o d \o <<"\n">> \o Fence,
      Fence \o d \o Fence,
      <<" ">> \o Fence \o JsonTag \o d \o <<"\n">> \o Fence \o <<"\n">> }

NonJsonTexts ==
    { <<>>, <<"Sorry, I cannot help with that.">>, Fence,
      Fence \o <<"Sorry">> \o Fence,
      Fence \o <<"j", "s", "o", "n", "\n", "{\"slides\": [">> \o Fence,
      <<"{\"slides\": [">> }

LlmTexts ==
    NonJsonTexts
    \cup UNION {{<<"\n">> \o Dumps(v) \o <<" ">>, Dumps(v)} \cup Wrappings(Dumps(v)) : v \in JsonValues}

LlmAnswers ==
    {[error |-> TRUE, text |-> <<>>]} \cup [error : {FALSE}, text : LlmTexts]

SourceTexts == {<<>>, <<"\n\nSource: ", "a.pdf", "\n", "w_half", "\n">>}

\* call_gemini_api_for_slides alone, called on any inputs
InitParser ==
    /\ uploaded_files = <<>>
    /\ uploaded_template = <<>>
    /\ topic \in {DefaultTopic, <<"P", " ", "Q">>}
    /\ num_slides \in {1, 2}
    /\ llm \in LlmAnswers
    /\ pc = "call_api"
    /\ file_idx = 1
    /\ combined_text \in SourceTexts
    /\ total_tokens = 0
    /\ processed_files = <<>>
    /\ Untouched

NextParser == CallGemini

SpecParser == InitParser /\ [][NextParser]_vars

-----------------------------------------------------------------------------
(* create_enhanced_ppt.  A template is its number of slides and, for each  *)
(* slide layout it holds (index 0, 1, ...), the number of placeholders a   *)
(* slide of that layout gets, the title placeholder first.  apply_theme    *)
(* sets fonts and colours and may add a footer text box: it changes no     *)
(* placeholder text and no slide count, and is left out.                   *)

\* Presentation(): no slide; Title Slide, Title and Content, Section Header,
\* Two Content, Comparison
StandardLayouts == <<2, 2, 2, 3, 5>>

TitleOnlyLayouts == <<1, 1, 1, 1, 1>>

FewLayouts == <<2, 2>>

\* create_default_template: prs = Presentation(); prs.save("template.pptx")
DefaultTemplate == [slides |-> 0, layouts |-> StandardLayouts]

Templates ==
    [slides : 0..MaxTemplateSlides, layouts : {StandardLayouts, TitleOnlyLayouts, FewLayouts}]

\* template_ppt of the handler: the upload, or the default template
TemplateFor(upload) == IF upload = <<>> THEN DefaultTemplate ELSE upload[1]

TemplateSlide == [origin |-> "template", title |-> <<>>, placeholders |-> <<>>, transition |-> "None"]

\* dict.get(key, default)
Get(d, key, default) == IF key \in DOMAIN d THEN d[key] ELSE default

\* tf.text = "" and one added paragraph per bullet
Bullets(items) == <<"">> \o items

Failure(err) == [ok |-> FALSE, error |-> err, slide |-> TemplateSlide]

Success(slide) == [ok |-> TRUE, error |-> "", slide |-> slide]

\* the placeholders after the title, filled as the layout_type says
FillPlaceholders(layout_type, content, n) ==
    LET blank == [i \in 1..(n - 1) |-> <<>>]
    IN  CASE layout_type \in {"Title Slide", "Section Header"} ->
                 IF n > 1 THEN [blank EXCEPT ![1] = <<Get(content, "subtitle", "")>>] ELSE blank
          [] layout_type = "Content" ->
                 IF n > 1 THEN [blank EXCEPT ![1] = Bullets(Get(content, "bullets", <<>>))] ELSE blank
          [] layout_type = "Two Content" ->
                 IF n > 2
                 THEN [blank EXCEPT ![1] = Bullets(Get(content, "left", <<>>)),
                                    ![2] = Bullets(Get(content, "right", <<>>))]
                 ELSE blank
          [] layout_type = "Comparison" ->
                 IF n > 1
                 THEN [blank EXCEPT ![1] = Bullets(Get(content, "comparison_points", <<>>))]
                 ELSE blank

\* whether the branch of the layout reads slide_info["content"]
ReadsContent(layout_type, n) == IF layout_type = "Two Content" THEN n > 2 ELSE n > 1

\* the body of the loop of create_enhanced_ppt, with every subscript that
\* raises in the order the code meets it
BuildSlide(slide_info, template) ==
    IF "layout_type" \notin DOMAIN slide_info THEN Failure("KeyError: 'layout_type'")
    ELSE LET layout_type == slide_info.layout_type
         IN  IF layout_type \notin SLIDE_LAYOUTS THEN Failure("KeyError: layout name")
             ELSE IF LayoutId(layout_type) + 1 > Len(template.layouts)
                  THEN Failure("IndexError: slide layout index out of range")
             ELSE LET n == template.layouts[LayoutId(layout_type) + 1]
                  IN  IF n > 0 /\ "title" \notin DOMAIN slide_info
                      THEN Failure("KeyError: 'title'")
                      ELSE IF ReadsContent(layout_type, n) /\ "content" \notin DOMAIN slide_info
                      THEN Failure("KeyError: 'content'")
                      ELSE IF "transition" \notin DOMAIN slide_info
                      THEN Failure("KeyError: 'transition'")
                      ELSE Success([origin |-> "added",
                                    title |-> IF n > 0 THEN slide_info.title ELSE <<>>,
                                    placeholders |->
                                        FillPlaceholders(layout_type,
                                            Get(slide_info, "content", EmptyDict), n),
                                    transition |-> slide_info.transition])

\* for slide_info in slides_data["slides"]: ... on the slides of prs
RECURSIVE AddSlides(_, _, _)
AddSlides(deck, slides, template) ==
    IF slides = <<>> THEN [ok |-> TRUE, error |-> "", deck |-> deck]
    ELSE LET built == BuildSlide(Head(slides), template)
         IN  IF built.ok
             THEN AddSlides(Append(deck, built.slide), Tail(slides), template)
             ELSE [ok |-> FALSE, error |-> built.error, deck |-> <<>>]

\* prs = Presentation(template_ppt): the slides the template comes with
OpenTemplate(template) == [i \in 1..template.slides |-> TemplateSlide]

Assemble(data, template, n) ==
    IF "slides" \notin DOMAIN data
    THEN [ok |-> FALSE, error |-> "KeyError: 'slides'", deck |-> <<>>]
    ELSE AddSlides(OpenTemplate(template), data.slides, template)

\* the whole of create_enhanced_ppt(slides_data, template_ppt, theme, num_slides)
CreatePpt ==
    /\ pc = "create_ppt"
    /\ slides_data # <<>>
    /\ ppt_calls' = ppt_calls + 1
    /\ LET r == Assemble(slides_data[1], TemplateFor(uploaded_template), num_slides)
       IN  IF r.ok
           THEN /\ pptx_stream' = <<r.deck>>
                /\ pc' = "ppt_created"
                /\ UNCHANGED exc
           ELSE /\ exc' = <<[type |-> r.error, pos |-> 0, doc |-> <<>>]>>
                /\ pc' = "raised"
                /\ UNCHANGED pptx_stream
    /\ UNCHANGED <<inputs, budget, prompt, slides_data, messages, llm_calls, download>>

TemplateUploads == {<<>>} \cup {<<t>> : t \in Templates}

\* create_enhanced_ppt alone, called on any outline and template
InitDeck ==
    /\ uploaded_files = <<>>
    /\ uploaded_template \in TemplateUploads
    /\ topic = DefaultTopic
    /\ num_slides \in {1, 2, 3}
    /\ llm = [error |-> TRUE, text |-> <<>>]
    /\ pc = "create_ppt"
    /\ BudgetStart
    /\ prompt = <<>>
    /\ slides_data \in {<<v>> : v \in JsonValues}
    /\ pptx_stream = <<>>
    /\ messages = <<>>
    /\ exc = <<>>
    /\ llm_calls = 0
    /\ ppt_calls = 0
    /\ download = FALSE

NextDeck == CreatePpt

SpecDeck == InitDeck /\ [][NextDeck]_vars

-----------------------------------------------------------------------------
(* The handler of the Generate Presentation button.                        *)

\* if st.button(...): the two checks of the inputs, then process_pdfs
Click ==
    /\ pc = "idle"
    /\ IF Strip(topic) = <<>>
       THEN /\ messages' = Append(messages, <<"error", "Please enter a topic.">>)
            /\ pc' = "done"
       ELSE IF uploaded_files = <<>>
       THEN /\ messages' = Append(messages, <<"error", "Please upload at least one PDF.">>)
            /\ pc' = "done"
       ELSE /\ pc' = "process_pdfs"
            /\ UNCHANGED messages
    /\ file_idx' = 1
    /\ combined_text' = <<>>
    /\ total_tokens' = 0
    /\ processed_files' = <<>>
    /\ UNCHANGED <<inputs, prompt, slides_data, pptx_stream, exc, llm_calls, ppt_calls,
                   download>>

\* if not processed_files: st.warning(...) else: the API is called
AfterProcess ==
    /\ pc = "processed"
    /\ IF processed_files = <<>>
       THEN /\ messages' = Append(messages,
                               <<"warning", "No files processed. Please check your input.">>)
            /\ pc' = "done"
       ELSE /\ pc' = "call_api"
            /\ UNCHANGED messages
    /\ UNCHANGED <<inputs, budget, prompt, slides_data, pptx_stream, exc, llm_calls,
                   ppt_calls, download>>

\* st.success(...); st.download_button(...)
OfferDownload ==
    /\ pc = "ppt_created"
    /\ messages' = Append(messages, <<"success", "Presentation generated successfully!">>)
    /\ download' = TRUE
    /\ pc' = "done"
    /\ UNCHANGED <<inputs, budget, prompt, slides_data, pptx_stream, exc, llm_calls,
                   ppt_calls>>

\* the uploads and answers of the whole-request runs
RequestFiles ==
    { [name |-> "a.pdf", fails |-> "none", pages |-> << <<"w_half">> >>],
      [name |-> "b.pdf", fails |-> "none", pages |-> << <<"w_over">> >>],
      [name |-> "a.pdf", fails |-> "read", pages |-> << <<>> >>] }

RequestAnswers ==
    { [error |-> TRUE, text |-> <<>>],
      [error |-> FALSE, text |-> <<"Sorry, I cannot help with that.">>],
      [error |-> FALSE, text |-> Fence \o <<"Sorry">> \o Fence],
      [error |-> FALSE, text |-> Dumps([slides |-> <<WellFormed("Content")>>])],
      [error |-> FALSE,
       text |-> Fence \o JsonTag
                \o Dumps([slides |-> <<WellFormed("Title Slide"), WellFormed("Content")>>])
                \o <<"\n">> \o Fence],
      [error |-> FALSE,
       text |-> Fence \o JsonTag \o Dumps([slides |-> <<FenceTitleSlide>>]) \o <<"\n">> \o Fence],
      [error |-> FALSE, text |-> Dumps([slides |-> <<NoContentSlide>>])],
      [error |-> FALSE, text |-> Dumps(EmptyDict)] }

Init ==
    /\ uploaded_files \in SeqsUpTo(RequestFiles, MaxFiles)
    /\ uploaded_template \in {<<>>, <<[slides |-> 1, layouts |-> StandardLayouts]>>}
    /\ topic \in {<<>>, <<" ">>, DefaultTopic}
    /\ num_slides \in {1, 2}
    /\ llm \in RequestAnswers
    /\ pc = "idle"
    /\ BudgetStart
    /\ Untouched

Next ==
    \/ Click
    \/ ProcessFile
    \/ ProcessPdfsReturn
    \/ AfterProcess
    \/ CallGemini
    \/ CreatePpt
    \/ OfferDownload

Spec == Init /\ [][Next]_vars

-----------------------------------------------------------------------------
(* process_pdfs: the claims.                                               *)

Tokens(file) == count_tokens(extract_text_from_pdf(file))

Readable(i) == ~Raises(uploaded_files[i])

RECURSIVE SumTokens(_)
SumTokens(S) ==
    IF S = {} THEN 0
    ELSE LET i == CHOOSE x \in S : TRUE
         IN  Tokens(uploaded_files[i]) + SumTokens(S \ {i})

\* the files of index set S in upload order: their names, and their blocks
RECURSIVE NamesAt(_)
NamesAt(S) ==
    IF S = {} THEN <<>>
    ELSE LET i == CHOOSE x \in S : \A y \in S : x <= y
         IN  <<uploaded_files[i].name>> \o NamesAt(S \ {i})

RECURSIVE BlocksAt(_)
BlocksAt(S) ==
    IF S = {} THEN <<>>
    ELSE LET i == CHOOSE x \in S : \A y \in S : x <= y
         IN  SourceBlock(uploaded_files[i], extract_text_from_pdf(uploaded_files[i]))
             \o BlocksAt(S \ {i})

\* the file names the Source: markers of a text announce, in order
RECURSIVE SourcesFrom(_, _)
SourcesFrom(text, from) ==
    LET i == Find(text, <<"\n\nSource: ">>, from)
    IN  IF i = 0 \/ i = Len(text) THEN <<>>
        ELSE <<text[i + 1]>> \o SourcesFrom(text, i + 2)

SourcesOf(text) == SourcesFrom(text, 1)

Visited == 1..(file_idx - 1)

AllFiles == 1..Len(uploaded_files)

ReadableFiles == {i \in AllFiles : Readable(i)}

\* C1: at every point of the loop and on return total_tokens is at most
\* MAX_TOKENS, and it is the sum of the token counts of whole files: some
\* set of the readable files visited so far, taken in upload order, is
\* exactly processed_files, its counts add up to total_tokens and its
\* blocks are combined_text.
C1_TotalWithinCeiling ==
    pc \in {"process_pdfs", "processed"} =>
        /\ total_tokens <= MAX_TOKENS
        /\ \E S \in SUBSET Visited :
              /\ \A i \in S : Readable(i)
              /\ processed_files = NamesAt(S)
              /\ total_tokens = SumTokens(S)
              /\ combined_text = BlocksAt(S)

C1_Witness ==
    /\ pc = "processed"
    /\ Len(uploaded_files) = 3
    /\ Len(processed_files) = 2
    /\ total_tokens = MAX_TOKENS

\* C2: when the token counts of the documents sum to at most the ceiling,
\* process_pdfs returns every document that could be read, and the name
\* list and the Source: blocks of the combined text are in upload order.
C2_AllAcceptedInOrder ==
    (pc = "processed" /\ SumTokens(ReadableFiles) <= MAX_TOKENS) =>
        /\ processed_files = NamesAt(ReadableFiles)
        /\ SourcesOf(combined_text) = NamesAt(ReadableFiles)
        /\ combined_text = BlocksAt(ReadableFiles)

C2_Witness ==
    /\ pc = "processed"
    /\ Len(uploaded_files) = 2
    /\ ReadableFiles = AllFiles
    /\ uploaded_files[1].name # uploaded_files[2].name
    /\ Tokens(uploaded_files[1]) > 0
    /\ SumTokens(AllFiles) = MAX_TOKENS
    /\ processed_files = <<uploaded_files[1].name, uploaded_files[2].name>>

\* the prefix sum of the token counts first exceeds the ceiling at document k
FirstOverflow(k) ==
    /\ k \in AllFiles
    /\ \A i \in 1..k : Readable(i)
    /\ SumTokens(1..(k - 1)) <= MAX_TOKENS
    /\ SumTokens(1..k) > MAX_TOKENS

\* this step of the loop accepts file: the whole file, and nothing else
Accepted(file) ==
    /\ processed_files' = Append(processed_files, file.name)
    /\ total_tokens' = total_tokens + Tokens(file)
    /\ combined_text' = combined_text \o SourceBlock(file, extract_text_from_pdf(file))

Rejected == UNCHANGED <<combined_text, total_tokens, processed_files>>

\* a readable file is accepted exactly when the running total of the
\* accepted files plus its own count fits, and the loop goes on
GreedyStep ==
    (pc = "process_pdfs" /\ file_idx <= Len(uploaded_files) /\ Readable(file_idx)) =>
        LET file == uploaded_files[file_idx]
        IN  /\ IF total_tokens + Tokens(file) <= MAX_TOKENS
               THEN Accepted(file)
               ELSE Rejected
            /\ pc' = "process_pdfs"
            /\ file_idx' = file_idx + 1
            /\ exc' = <<>>

OverflowState ==
    \A k \in AllFiles :
        (FirstOverflow(k) /\ file_idx > k) =>
            /\ Len(processed_files) >= k - 1
            /\ SubSeq(processed_files, 1, k - 1) = NamesAt(1..(k - 1))
            /\ file_idx = k + 1 =>
                  /\ processed_files = NamesAt(1..(k - 1))
                  /\ total_tokens = SumTokens(1..(k - 1))

\* C3: when the prefix sum first exceeds the ceiling at document k,
\* documents 1..k-1 are accepted, document k is rejected and the loop goes
\* on; every document is accepted exactly when the running total of the
\* accepted documents plus its own count is at most the ceiling.
C3_GreedyAfterOverflow == [][GreedyStep /\ OverflowState']_vars

C3_Witness ==
    /\ pc = "processed"
    /\ Len(uploaded_files) = 3
    /\ FirstOverflow(2)
    /\ Tokens(uploaded_files[3]) > 0
    /\ processed_files = <<uploaded_files[1].name, uploaded_files[3].name>>

HasErrorLine(file) ==
    \E i \in 1..Len(messages') :
        /\ i > Len(messages)
        /\ messages'[i][1] = "error"
        /\ messages'[i][3] = file.name

\* an iteration on a file that raises changes nothing but the report
RaisingStep ==
    (pc = "process_pdfs" /\ file_idx <= Len(uploaded_files) /\ ~Readable(file_idx)) =>
        /\ Rejected
        /\ HasErrorLine(uploaded_files[file_idx])
        /\ exc' = <<>>
        /\ pc' = "process_pdfs"
        /\ file_idx' = file_idx + 1

\* after a file that raised, the files that follow meet the same rule
AfterRaise ==
    (\E j \in Visited : ~Readable(j)) => GreedyStep

\* C10: an iteration whose file raises reports the file and leaves
\* combined_text, total_tokens and processed_files as they were; the
\* exception does not leave process_pdfs, and every later file is still
\* processed with the same accept/reject rule.
C10_RaisingFileSkipped == [][RaisingStep /\ AfterRaise]_vars

C10_Witness ==
    /\ pc = "processed"
    /\ Len(uploaded_files) = 3
    /\ ~Readable(1)
    /\ Readable(2) /\ Readable(3)
    /\ Tokens(uploaded_files[2]) > MAX_TOKENS
    /\ processed_files = <<uploaded_files[3].name>>
    /\ total_tokens = Tokens(uploaded_files[3])
    /\ total_tokens > 0

-----------------------------------------------------------------------------
(* call_gemini_api_for_slides: the claims.                                 *)

Returned == pc # "call_api" /\ llm_calls = 1

\* C4: a well-formed {"slides": [...]} document in a triple-backtick fence,
\* with or without the json tag, parses to the structure the bare document
\* parses to.
C4_FenceRoundTrip ==
    \A p \in JsonTable :
        \A w \in Wrappings(p[1]) :
            (Returned /\ ~llm.error /\ llm.text = w /\ "slides" \in DOMAIN p[2]) =>
                /\ ParseResponse(p[1]) = <<p[2]>>
                /\ slides_data = ParseResponse(p[1])

\* C5: a text that is no JSON gives a failure whose report holds the raw
\* response text, and no slides mapping.
C5_FailureCarriesRawText ==
    (Returned /\ ~llm.error /\ llm.text \in NonJsonTexts) =>
        /\ slides_data = <<>>
        /\ exc # <<>>
        /\ \E i \in 1..Len(messages) :
              messages[i][1] = "error" /\ Contains(messages[i], llm.text)

\* C8: the prompt holds the requested slide count, the topic, and the
\* combined source text verbatim at its end.
C8_PromptEmbedsInputs ==
    Returned =>
        /\ Contains(prompt, <<ToString(num_slides)>>)
        /\ Contains(prompt, topic)
        /\ EndsWith(prompt, combined_text)

-----------------------------------------------------------------------------
(* create_enhanced_ppt: the claims.                                        *)

\* C6: the deck create_enhanced_ppt returns has exactly num_slides slides,
\* whatever the number of slides of the template (stated for the outlines
\* of num_slides records, the case the claim is most at ease with).
C6_DeckHasRequestedCount ==
    (pptx_stream # <<>> /\ Len(slides_data[1].slides) = num_slides) =>
        Len(pptx_stream[1]) = num_slides

\* the slide a record gives when every field it lacks is read as empty
BuildSlideWithDefaults(slide_info, template) ==
    LET layout_type == Get(slide_info, "layout_type", "Content")
        known == IF layout_type \in SLIDE_LAYOUTS THEN layout_type ELSE "Content"
        n == template.layouts[LayoutId(known) + 1]
    IN  Success([origin |-> "added",
                 title |-> Get(slide_info, "title", <<>>),
                 placeholders |-> FillPlaceholders(known, Get(slide_info, "content", EmptyDict), n),
                 transition |-> Get(slide_info, "transition", "None")])

\* the records of the claim: well formed, or lacking a content entry, the
\* content object or a known layout_type
ClaimSlides ==
    WellFormedSlides \cup NoEntrySlides
    \cup {NoContentSlide, NoLayoutSlide, UnknownLayoutSlide, FadeSlide}

\* C7: an outline whose records lack a content entry, the content object or
\* a known layout_type still gives the deck: one slide per record, the
\* placeholder of a missing field empty.
C7_MalformedSlideDefaults ==
    (/\ ppt_calls = 1
     /\ "slides" \in DOMAIN slides_data[1]
     /\ \A i \in 1..Len(slides_data[1].slides) : slides_data[1].slides[i] \in ClaimSlides
     /\ TemplateFor(uploaded_template).layouts = StandardLayouts) =>
        LET template == TemplateFor(uploaded_template)
            outline == slides_data[1].slides
        IN  /\ exc = <<>>
            /\ pptx_stream # <<>>
            /\ Len(pptx_stream[1]) = template.slides + Len(outline)
            /\ \A i \in 1..Len(outline) :
                  pptx_stream[1][template.slides + i]
                      = BuildSlideWithDefaults(outline[i], template).slide

-----------------------------------------------------------------------------
(* The handler: the claims.                                                *)

\* the call of the LLM failed: the API raised, or the text is no JSON
CallFailed ==
    \/ llm.error
    \/ llm.text \in NonJsonTexts
    \/ (exc # <<>> /\ exc[1].type \in {"APIError", "JSONDecodeError"})

\* C9: a request calls the LLM at most once, and only when process_pdfs
\* accepted a file; when the call fails the request ends there: no second
\* call, create_enhanced_ppt is not called and no download is offered.
C9_OneCallFailureFatal ==
    /\ llm_calls <= 1
    /\ llm_calls = 1 => (processed_files # <<>> /\ pc \in {"create_ppt", "ppt_created", "done", "raised"})
    /\ (llm_calls = 1 /\ CallFailed) =>
          /\ pc = "raised"
          /\ exc # <<>>
          /\ slides_data = <<>>
          /\ ppt_calls = 0
          /\ pptx_stream = <<>>
          /\ ~download

C9_Witness ==
    /\ llm_calls = 1
    /\ ~llm.error
    /\ exc # <<>>
    /\ exc[1].type = "JSONDecodeError"
    /\ Len(processed_files) = 2
    /\ pc = "raised"

=============================================================================
